---------------------------- MODULE Spec2Model ----------------------------
(***************************************************************************)
(* Sign-recognition engine of handinhand: the sliding landmark window, the *)
(* Tier 4 classifier, the temporal confirmation filter and the cooldown    *)
(* gate, as implemented in recognition_engine_ui.py, recognition_base.py   *)
(* and recognition_engine.py; engine construction, the Socket.io worker,   *)
(* the landmark normalizers and masked pooling; and the quality gate,      *)
(* outlier removal, aggregation and persistence of the reference library   *)
(* builder, generate_embeddings.py.                                        *)
(*                                                                         *)
(* Similarity scores and landmark coordinates are in hundredths (0.80 is   *)
(* 80), times in milliseconds.                                             *)
(***************************************************************************)
EXTENDS Integers, Sequences, FiniteSets, TLC

VARIABLES
    landmark_window,      \* RecognitionEngineUI.landmark_window (list of frames)
    frame_count,          \* TemporalFilter.frame_count (defaultdict(int))
    last_concept,         \* TemporalFilter.last_concept
    confirmed_concept,    \* TemporalFilter.confirmed_concept
    last_match_time,      \* RecognitionEngineUI.last_match_time
    last_matched_concept, \* RecognitionEngineUI.last_matched_concept
    now,                  \* wall clock, time.time() * 1000
    result,               \* RecognitionResult of the last processed frame
    gate,                 \* what the cooldown gate did in the last loop iteration
    running,              \* the frame loop of run() has not been left by an exception
    recent,               \* history: the last WINDOW_SIZE frames admitted since the last reset
    admitted,             \* history, kept when switched on: frames admitted since the last reset
    calls,                \* the last min_frames TemporalFilter.update calls (history)
    ret,                  \* return value of the last TemporalFilter.update call
    concept_names,        \* the loaded concepts, in loading order
    base_window,          \* BaseRecognitionEngine.landmark_window (deque(maxlen))
    base_result,          \* result of the last BaseRecognitionEngine recognition
    registry,             \* the language registry read at startup, in file order
    ctor,                 \* per engine: how its constructor ended
    loaded,               \* per engine: the concepts _load_embeddings loaded, in order
    socket_connected,     \* RecognitionEngineUI.socket_connected
    sio,                  \* state of the Socket.io client and its worker thread
    arg,                  \* input of the pure function under study
    out                   \* what the function returned for arg

vars == <<landmark_window, frame_count, last_concept, confirmed_concept,
          last_match_time, last_matched_concept, now, result, gate, running,
          recent, admitted, calls, ret, concept_names, base_window, base_result,
          registry, ctor, loaded, socket_connected, sio, arg, out>>

filterVars == <<frame_count, last_concept, confirmed_concept>>
uiVars     == <<landmark_window, last_match_time, last_matched_concept, now,
                result, gate, running, recent, admitted>>
histVars   == <<calls, ret>>
baseVars   == <<base_window, base_result>>
loadVars   == <<registry, ctor, loaded>>
sockVars   == <<socket_connected, sio>>
pureVars   == <<arg, out>>
auxVars    == <<loadVars, sockVars, pureVars>>

(***************************************************************************)
(* Program constants                                                       *)
(***************************************************************************)
COSINE_SIM_THRESHOLD == 80
TIER_4_GAP_THRESHOLD == 15
HIGH_CONFIDENCE      == 90
DEFAULT_COOLDOWN_MS  == 2000
MIN_FRAMES           == 5
FILTER_THRESHOLD     == 80
MIN_WINDOW_QUALITY   == 70
\* Landmark layout: pose 6, each hand 21, face 4 points.
POSE_POINTS          == 6
HAND_POINTS          == 21
FACE_POINTS          == 4
\* Builder thresholds: percentages of frames, and a cosine in hundredths.
MIN_POSE_QUALITY     == 80
MIN_HAND_QUALITY     == 20
SIMILARITY_THRESHOLD == 50
\* Length of an embedding vector.
EMBEDDING_DIM        == 512
\* Smallest shoulder width that is scaled (0.01), in hundredths.
SHOULDER_EPS         == 1
\* Shoulder rows used by the three normalizers (0-based, as in the source).
SHOULDER_LEFT_IDX     == 0
SHOULDER_RIGHT_IDX    == 1
SHOULDER_LEFT         == 11
SHOULDER_RIGHT        == 12
SHOULDER_CENTER_LEFT  == 11
SHOULDER_CENTER_RIGHT == 12

(***************************************************************************)
(* Bounds of the model                                                     *)
(***************************************************************************)
\* Capacity of the landmark window (30 in the source), scaled down.
WINDOW_SIZE == 2
\* Largest consecutive-frame count the filter is driven to.
MaxCount    == 7
\* Clock value at session start, and how far the clock runs.
StartTime   == 5000
MaxElapsed  == 6500
\* The count of admitted frames stops here (it then reads 'at least').
MaxAdmitted == WINDOW_SIZE + MIN_FRAMES - 1
\* Largest number of entries in a language registry.
MaxRegistry == 3
\* Recordings per concept, and frames per recording.
MaxRecordings == 3
MaxFrames     == 5

None == "None"

\* Loaded concepts, in the insertion order of the embeddings dict.
ConceptOrder == <<"A", "B">>
Concepts     == {ConceptOrder[i] : i \in 1..Len(ConceptOrder)}

\* The set of concepts in a loading order.
Loaded(names) == {names[i] : i \in 1..Len(names)}

\* Cosine similarities a window can score against a concept.
Scores == {65, 79, 80, 94, 95}

\* Similarities the live window of the UI engine scores per concept.
LiveScores == {79, 80, 95}

\* Milliseconds between two loop iterations.
TimeSteps == {500, 2000}

(***************************************************************************)
(* TemporalFilter                                                          *)
(***************************************************************************)
NoCounts == [c \in Concepts |-> 0]

\* TemporalFilter.update that forgets to restart the count on a dip.
FilterUpdateNoDipReset(fc, lc, cc, best_concept, similarity) ==
    IF similarity >= FILTER_THRESHOLD
    THEN LET fc1 == IF best_concept = lc
                    THEN [fc EXCEPT ![best_concept] = @ + 1]
                    ELSE [NoCounts EXCEPT ![best_concept] = 1]
         IN  IF fc1[best_concept] >= MIN_FRAMES
             THEN [frame_count |-> fc1, last_concept |-> lc,
                   confirmed_concept |-> best_concept, ret |-> best_concept]
             ELSE [frame_count |-> fc1, last_concept |-> best_concept,
                   confirmed_concept |-> cc, ret |-> None]
    ELSE [frame_count |-> fc, last_concept |-> best_concept,
          confirmed_concept |-> None, ret |-> None]

\* TemporalFilter.update: the new filter state and the value returned.
FilterUpdate(fc, lc, cc, best_concept, similarity) ==
    IF similarity >= FILTER_THRESHOLD
    THEN LET fc1 == IF best_concept = lc
                    THEN [fc EXCEPT ![best_concept] = @ + 1]
                    ELSE [NoCounts EXCEPT ![best_concept] = 1]
         IN  IF fc1[best_concept] >= MIN_FRAMES
             THEN \* early return: last_concept is not assigned
                  [frame_count |-> fc1, last_concept |-> lc,
                   confirmed_concept |-> best_concept, ret |-> best_concept]
             ELSE \* confirmed_concept is left as it was
                  [frame_count |-> fc1, last_concept |-> best_concept,
                   confirmed_concept |-> cc, ret |-> None]
    ELSE LET fc1 == IF lc # None THEN [fc EXCEPT ![lc] = 0] ELSE fc
         IN  [frame_count |-> fc1, last_concept |-> best_concept,
              confirmed_concept |-> None, ret |-> None]

\* The last n elements of s (all of s when it is shorter).
LastN(s, n) == IF Len(s) <= n THEN s ELSE SubSeq(s, Len(s) - n + 1, Len(s))

(***************************************************************************)
(* Initial state                                                           *)
(***************************************************************************)
\* The three online engines.
Engines == {"base", "ui", "cli"}

\* The count of admitted frames: not kept, and the step that counts one.
MeterOff == [on |-> FALSE, n |-> 0]

CountAdmitted(m) ==
    IF m.on /\ m.n < MaxAdmitted THEN [m EXCEPT !.n = @ + 1] ELSE m

\* No constructor has run.
LoaderIdle ==
    /\ registry = <<>>
    /\ ctor = [e \in Engines |-> "init"]
    /\ loaded = [e \in Engines |-> <<>>]

\* No socket_url was given: sio is None and nothing ever connects.
SocketOff ==
    /\ socket_connected = FALSE
    /\ sio = "off"

\* No function under study has been called.
NoCall == arg = None /\ out = None

NoResult == [concept |-> None, similarity_score |-> 0,
             confidence_level |-> "low", verification_status |-> "none",
             scored |-> FALSE, gap_to_second |-> 0,
             frame_window_complete |-> FALSE]

BaseNoResult ==
    [concept |-> None, similarity_score |-> 0, confidence_level |-> "low",
     verification_status |-> "none", scored |-> FALSE, all_scores |-> <<>>,
     gap_to_second |-> 0]

Init ==
    /\ landmark_window = <<>>
    /\ frame_count = NoCounts
    /\ last_concept = None
    /\ confirmed_concept = None
    /\ last_match_time = 0
    /\ last_matched_concept = None
    /\ now = StartTime
    /\ result = NoResult
    /\ gate = "idle"
    /\ running = TRUE
    /\ recent = <<>>
    /\ admitted = MeterOff
    /\ calls = <<>>
    /\ ret = None
    /\ concept_names = ConceptOrder
    /\ base_window = <<>>
    /\ base_result = BaseNoResult
    /\ LoaderIdle /\ SocketOff /\ NoCall

(***************************************************************************)
(* The TemporalFilter driven directly through its two methods              *)
(***************************************************************************)
Update(c, s) ==
    LET r == FilterUpdate(frame_count, last_concept, confirmed_concept, c, s)
    IN  /\ frame_count[c] < MaxCount
        /\ frame_count' = r.frame_count
        /\ last_concept' = r.last_concept
        /\ confirmed_concept' = r.confirmed_concept
        /\ ret' = r.ret
        /\ calls' = LastN(Append(calls, [concept |-> c, similarity |-> s]),
                          MIN_FRAMES)
        /\ UNCHANGED <<uiVars, concept_names, baseVars, auxVars>>

\* TemporalFilter.reset
FilterReset ==
    /\ frame_count' = NoCounts
    /\ last_concept' = None
    /\ confirmed_concept' = None
    /\ ret' = None
    /\ calls' = <<>>
    /\ UNCHANGED <<uiVars, concept_names, baseVars, auxVars>>

FilterUpdateStep == \E c \in Concepts, s \in Scores : Update(c, s)

NextFilter == FilterUpdateStep \/ FilterReset

SpecFilter == Init /\ [][NextFilter]_vars

(***************************************************************************)
(* Scoring helpers: sorted(scores.items(), key=score, reverse=True)        *)
(***************************************************************************)
MaxOf(S) == CHOOSE x \in S : \A y \in S : y <= x

\* Index (in loading order) of the first entry of the stable descending sort.
BestIndex(names, sc) ==
    LET top == MaxOf({sc[names[i]] : i \in 1..Len(names)})
    IN  CHOOSE i \in 1..Len(names) :
            /\ sc[names[i]] = top
            /\ \A j \in 1..Len(names) : sc[names[j]] = top => i <= j

BestConcept(names, sc) == names[BestIndex(names, sc)]
BestScore(names, sc)   == sc[BestConcept(names, sc)]

\* Score of the second entry of the sort; only used when Len(names) > 1.
SecondScore(names, sc) ==
    MaxOf({sc[names[j]] : j \in 1..Len(names) \ {BestIndex(names, sc)}})

ConfidenceLevel(best_score) ==
    IF best_score >= HIGH_CONFIDENCE THEN "high"
    ELSE IF best_score >= COSINE_SIM_THRESHOLD THEN "medium"
    ELSE "low"

(***************************************************************************)
(* Tracker output for one camera frame                                     *)
(***************************************************************************)
\* pose: results.pose_landmarks is present; shoulders: both shoulder points
\* have visibility >= VISIBILITY_THRESHOLD; hand: at least one hand detected.
TrackerFrames ==
    { [pose |-> FALSE, shoulders |-> FALSE, hand |-> FALSE],
      [pose |-> TRUE,  shoulders |-> FALSE, hand |-> TRUE],
      [pose |-> TRUE,  shoulders |-> TRUE,  hand |-> FALSE],
      [pose |-> TRUE,  shoulders |-> TRUE,  hand |-> TRUE] }

\* BaseRecognitionEngine.is_frame_quality_good on a stored frame.
IsFrameQualityGood(lm) == lm.shoulders /\ lm.hand

GoodFrames(w) == Cardinality({i \in 1..Len(w) : IsFrameQualityGood(w[i])})

\* quality_ratio < MIN_WINDOW_QUALITY, in hundredths.
QualityTooLow(w) == GoodFrames(w) * 100 < MIN_WINDOW_QUALITY * Len(w)

(***************************************************************************)
(* RecognitionEngineUI                                                     *)
(***************************************************************************)
\* The None returned by the extractors (no usable landmarks).
NoLandmarks == [present |-> FALSE, shoulders |-> FALSE, hand |-> FALSE]

\* A feature extractor that builds a frame even when no pose was found.
UIExtractFrameFeaturesWithoutPose(f) ==
    [present |-> TRUE, shoulders |-> f.shoulders, hand |-> f.hand]

\* RecognitionEngineUI._extract_frame_features: None when no pose was found.
UIExtractFrameFeatures(f) ==
    IF ~f.pose THEN NoLandmarks
    ELSE [present |-> TRUE, shoulders |-> f.shoulders, hand |-> f.hand]

\* The early-return result of recognize (no landmarks, or window not full).
UINoDecision ==
    [concept |-> None, similarity_score |-> 0, confidence_level |-> "low",
     verification_status |-> "low_confidence", scored |-> FALSE,
     gap_to_second |-> 0, frame_window_complete |-> FALSE]

\* A push that discards the newest frame on overflow instead of the oldest.
UIPushDropNewest(w, lm) ==
    LET w1 == Append(w, lm)
    IN  IF Len(w1) > WINDOW_SIZE THEN SubSeq(w1, 1, WINDOW_SIZE) ELSE w1

\* append, then pop(0) when longer than WINDOW_SIZE.
UIPush(w, lm) ==
    LET w1 == Append(w, lm)
    IN  IF Len(w1) > WINDOW_SIZE THEN Tail(w1) ELSE w1

\* recognize goes on to score the window only when it holds WINDOW_SIZE frames.
WindowCompleteOffByOne(w) == Len(w) >= WINDOW_SIZE - 1

WindowComplete(w) == Len(w) >= WINDOW_SIZE

\* The pre-hysteresis status: a clean match is 'verified' at once.
UIVerificationStatusUnfiltered(confirmed, best_score, gap_to_second) ==
    IF best_score >= COSINE_SIM_THRESHOLD
       /\ gap_to_second >= TIER_4_GAP_THRESHOLD
    THEN "verified"
    ELSE IF best_score < COSINE_SIM_THRESHOLD THEN "low_confidence"
    ELSE "cross_concept_noise"

\* Verification status of recognize, after the temporal filter has run.
UIVerificationStatus(confirmed, best_score, gap_to_second) ==
    IF confirmed # None THEN "verified"
    ELSE IF best_score >= COSINE_SIM_THRESHOLD
            /\ gap_to_second >= TIER_4_GAP_THRESHOLD
         THEN "pending_confirmation"
    ELSE IF best_score < COSINE_SIM_THRESHOLD THEN "low_confidence"
    ELSE "cross_concept_noise"

\* The cooldown test of run().
CooldownElapsed(now_ms, last) == now_ms - last > DEFAULT_COOLDOWN_MS

\* RecognitionEngineUI.recognize on a full window scoring sc, with the
\* filter outcome r.
UIScoredResult(sc, r) ==
    LET best_concept == BestConcept(concept_names, sc)
        best_score   == BestScore(concept_names, sc)
        second_score == IF Len(concept_names) > 1
                        THEN SecondScore(concept_names, sc) ELSE 0
        gap          == best_score - second_score
    IN  [concept |-> IF r.ret # None THEN r.ret ELSE best_concept,
         similarity_score |-> best_score,
         confidence_level |-> ConfidenceLevel(best_score),
         verification_status |-> UIVerificationStatus(r.ret, best_score, gap),
         scored |-> TRUE,
         gap_to_second |-> gap,
         frame_window_complete |-> TRUE]

\* _draw_winner_display: returns the frame untouched for an empty concept;
\* otherwise it evaluates cv2.FONT_HERSHEY_BOLD, a name OpenCV does not
\* define, and the AttributeError leaves run() through its try/finally.
DrawWinnerDisplayRaises(confirmed) == confirmed # None

\* One iteration of run(): read a frame, recognize, draw, cooldown gate, emit.
ProcessFrame(f, sc, dt) ==
    LET lm == UIExtractFrameFeatures(f)
        w  == UIPush(landmark_window, lm)
        r  == FilterUpdate(frame_count, last_concept, confirmed_concept,
                           BestConcept(concept_names, sc),
                           BestScore(concept_names, sc))
        res == UIScoredResult(sc, r)
    IN  /\ running
        /\ now + dt <= StartTime + MaxElapsed
        /\ now' = now + dt
        /\ UNCHANGED <<histVars, concept_names, baseVars, auxVars>>
        /\ IF lm = NoLandmarks
           THEN /\ result' = UINoDecision
                /\ gate' = "idle"
                /\ UNCHANGED <<landmark_window, recent, admitted, filterVars,
                               running, last_match_time, last_matched_concept>>
           ELSE /\ landmark_window' = w
                /\ recent' = LastN(Append(recent, lm), WINDOW_SIZE)
                /\ admitted' = CountAdmitted(admitted)
                /\ IF ~WindowComplete(w)
                   THEN /\ result' = UINoDecision
                        /\ gate' = "idle"
                        /\ UNCHANGED <<filterVars, running, last_match_time,
                                       last_matched_concept>>
                   ELSE IF concept_names = <<>>
                   THEN \* sorted_scores[0] of an empty list: IndexError
                        /\ running' = FALSE
                        /\ UNCHANGED <<result, gate, filterVars,
                                       last_match_time, last_matched_concept>>
                   ELSE /\ frame_count' = r.frame_count
                        /\ last_concept' = r.last_concept
                        /\ confirmed_concept' = r.confirmed_concept
                        /\ result' = res
                        /\ IF /\ res.verification_status = "verified"
                              /\ DrawWinnerDisplayRaises(res.concept)
                           THEN \* the exception skips the rest of the iteration
                                /\ running' = FALSE
                                /\ gate' = "idle"
                                /\ UNCHANGED <<last_match_time,
                                               last_matched_concept>>
                           ELSE /\ running' = TRUE
                                /\ IF res.verification_status = "verified"
                                   THEN IF CooldownElapsed(now', last_match_time)
                                        THEN /\ gate' = "emit"
                                             /\ last_match_time' = now'
                                             /\ last_matched_concept' = res.concept
                                        ELSE /\ gate' = "suppressed"
                                             /\ UNCHANGED <<last_match_time,
                                                            last_matched_concept>>
                                   ELSE /\ gate' = "idle"
                                        /\ UNCHANGED <<last_match_time,
                                                       last_matched_concept>>

\* An 'r' key that empties the window and leaves the temporal filter alone.
ResetKeyWindowOnly ==
    /\ running
    /\ landmark_window' = <<>>
    /\ recent' = <<>>
    /\ admitted' = [admitted EXCEPT !.n = 0]
    /\ UNCHANGED <<filterVars, last_match_time, last_matched_concept, now,
                   result, gate, running, histVars, concept_names, baseVars,
                   auxVars>>

\* An 'r' key that resets the temporal filter and leaves the window alone.
ResetKeyFilterOnly ==
    /\ running
    /\ frame_count' = NoCounts
    /\ last_concept' = None
    /\ confirmed_concept' = None
    /\ admitted' = [admitted EXCEPT !.n = 0]
    /\ UNCHANGED <<landmark_window, recent, last_match_time,
                   last_matched_concept, now, result, gate, running, histVars,
                   concept_names, baseVars, auxVars>>

\* The 'r' key of run(): clear the window and reset the temporal filter.
ResetKey ==
    /\ running
    /\ landmark_window' = <<>>
    /\ frame_count' = NoCounts
    /\ last_concept' = None
    /\ confirmed_concept' = None
    /\ recent' = <<>>
    /\ admitted' = [admitted EXCEPT !.n = 0]
    /\ UNCHANGED <<last_match_time, last_matched_concept, now, result, gate,
                   running, histVars, concept_names, baseVars, auxVars>>

\* The window is scored only when the frame is appended and fills it; the
\* score vector of any other frame is never read.
ScoreInputs(f) ==
    IF f.pose /\ Len(landmark_window) >= WINDOW_SIZE - 1
    THEN [Loaded(concept_names) -> LiveScores]
    ELSE {[c \in Loaded(concept_names) |-> 0]}

FrameStep ==
    \E f \in TrackerFrames, dt \in TimeSteps :
        \E sc \in ScoreInputs(f) : ProcessFrame(f, sc, dt)

Next == FrameStep \/ ResetKey

Spec == Init /\ [][Next]_vars

\* The same engine constructed from a registry none of whose embeddings
\* loaded: _load_embeddings leaves concept_names empty and __init__ goes on.
InitNoLibrary ==
    /\ landmark_window = <<>>
    /\ frame_count = NoCounts
    /\ last_concept = None
    /\ confirmed_concept = None
    /\ last_match_time = 0
    /\ last_matched_concept = None
    /\ now = StartTime
    /\ result = NoResult
    /\ gate = "idle"
    /\ running = TRUE
    /\ recent = <<>>
    /\ admitted = MeterOff
    /\ calls = <<>>
    /\ ret = None
    /\ concept_names = <<>>
    /\ base_window = <<>>
    /\ base_result = BaseNoResult
    /\ LoaderIdle /\ SocketOff /\ NoCall

SpecNoLibrary == InitNoLibrary /\ [][Next]_vars

\* The run loop with the admitted frames counted from session start.
InitLatency ==
    /\ landmark_window = <<>>
    /\ frame_count = NoCounts
    /\ last_concept = None
    /\ confirmed_concept = None
    /\ last_match_time = 0
    /\ last_matched_concept = None
    /\ now = StartTime
    /\ result = NoResult
    /\ gate = "idle"
    /\ running = TRUE
    /\ recent = <<>>
    /\ admitted = [on |-> TRUE, n |-> 0]
    /\ calls = <<>>
    /\ ret = None
    /\ concept_names = ConceptOrder
    /\ base_window = <<>>
    /\ base_result = BaseNoResult
    /\ LoaderIdle /\ SocketOff /\ NoCall

SpecLatency == InitLatency /\ [][Next]_vars

(***************************************************************************)
(* BaseRecognitionEngine                                                   *)
(***************************************************************************)
\* Libraries _load_embeddings can leave in self.embeddings (loading order).
Libraries == {<<>>, <<"A">>, <<"A", "B">>, <<"B", "A">>, <<"A", "B", "C">>}

\* BaseRecognitionEngine.extract_landmarks: None without a pose or when a
\* shoulder is below VISIBILITY_THRESHOLD.
BaseExtractLandmarks(f) ==
    IF ~f.pose \/ ~f.shoulders THEN NoLandmarks
    ELSE [present |-> TRUE, shoulders |-> f.shoulders, hand |-> f.hand]

\* deque(maxlen=WINDOW_SIZE).append
DequeAppend(w, lm) ==
    LET w1 == Append(w, lm)
    IN  IF Len(w1) > WINDOW_SIZE THEN Tail(w1) ELSE w1

\* compute_embedding returns an embedding (TRUE) or None (FALSE).
BaseHasEmbedding(w) == Len(w) >= WINDOW_SIZE /\ ~QualityTooLow(w)

\* Tier 4 status with an inclusive gap test.
BaseTierStatusInclusiveGap(best_score, gap) ==
    IF best_score < COSINE_SIM_THRESHOLD THEN "low_confidence"
    ELSE IF gap <= TIER_4_GAP_THRESHOLD THEN "cross_concept_noise"
    ELSE "verified"

\* Tier 4 validation of match_embedding.
BaseTierStatus(best_score, gap) ==
    IF best_score < COSINE_SIM_THRESHOLD THEN "low_confidence"
    ELSE IF gap < TIER_4_GAP_THRESHOLD THEN "cross_concept_noise"
    ELSE "verified"

\* BaseRecognitionEngine.match_embedding on a live embedding scoring sc.
MatchEmbedding(names, sc) ==
    IF names = <<>>
    THEN [concept |-> None, similarity_score |-> 0,
          confidence_level |-> "low", verification_status |-> "no_embeddings",
          scored |-> TRUE, all_scores |-> <<>>, gap_to_second |-> 0]
    ELSE LET best_concept == BestConcept(names, sc)
             best_score   == BestScore(names, sc)
             gap          == IF Len(names) > 1
                             THEN best_score - SecondScore(names, sc) ELSE 0
         IN  [concept |-> best_concept,
              similarity_score |-> best_score,
              confidence_level |-> ConfidenceLevel(best_score),
              verification_status |-> BaseTierStatus(best_score, gap),
              scored |-> TRUE,
              all_scores |-> sc,
              gap_to_second |-> gap]

\* add_landmarks with what extract_landmarks returned for a tracker frame.
BaseAddLandmarks(f) ==
    /\ BaseExtractLandmarks(f) # NoLandmarks
    /\ base_window' = DequeAppend(base_window, BaseExtractLandmarks(f))
    /\ UNCHANGED <<base_result, concept_names, filterVars, uiVars, histVars, auxVars>>

\* reset_window
BaseResetWindow ==
    /\ base_window' = <<>>
    /\ UNCHANGED <<base_result, concept_names, filterVars, uiVars, histVars, auxVars>>

\* compute_embedding, then match_embedding when an embedding came back.
BaseRecognize(sc) ==
    /\ base_result' = IF BaseHasEmbedding(base_window)
                      THEN MatchEmbedding(concept_names, sc)
                      ELSE BaseNoResult
    /\ UNCHANGED <<base_window, concept_names, filterVars, uiVars, histVars, auxVars>>

BaseAddStep == \E f \in TrackerFrames : BaseAddLandmarks(f)

BaseRecognizeStep ==
    \E sc \in [Loaded(concept_names) -> Scores] : BaseRecognize(sc)

InitBase ==
    /\ landmark_window = <<>>
    /\ frame_count = NoCounts
    /\ last_concept = None
    /\ confirmed_concept = None
    /\ last_match_time = 0
    /\ last_matched_concept = None
    /\ now = StartTime
    /\ result = NoResult
    /\ gate = "idle"
    /\ running = TRUE
    /\ recent = <<>>
    /\ admitted = MeterOff
    /\ calls = <<>>
    /\ ret = None
    /\ concept_names \in Libraries
    /\ base_window = <<>>
    /\ base_result = BaseNoResult
    /\ LoaderIdle /\ SocketOff /\ NoCall

NextBase == BaseAddStep \/ BaseResetWindow \/ BaseRecognizeStep

SpecBase == InitBase /\ [][NextBase]_vars

(***************************************************************************)
(* Engine construction: _load_embeddings of the three engines              *)
(***************************************************************************)
\* What a registry entry can be: a metadata key ('_...'), an entry without
\* an embedding file field, one whose file does not exist, one whose file
\* exists but cannot be read by np.load, and a loadable one.
EntryKinds == {"meta", "nofield", "missing", "corrupt", "ok"}

\* Registries of up to MaxRegistry entries; entry i names concept i.
Registries ==
    UNION {[1..n -> EntryKinds] : n \in 0..MaxRegistry}

\* BaseRecognitionEngine._load_embeddings on one entry: os.path.exists
\* guards the load and every exception of np.load is caught.
BaseLoadOutcome(kind) ==
    IF kind = "ok" THEN "load" ELSE "skip"

\* RecognitionEngineUI._load_embeddings on one entry: only
\* FileNotFoundError is caught around np.load.
UILoadOutcome(kind) ==
    IF kind = "ok" THEN "load"
    ELSE IF kind = "corrupt" THEN "raise"
    ELSE "skip"

\* RecognitionEngine._load_embeddings on one entry: os.path.exists guards
\* the load, np.load is not inside a try.
CLILoadOutcome(kind) ==
    IF kind = "ok" THEN "load"
    ELSE IF kind = "corrupt" THEN "raise"
    ELSE "skip"

LoadOutcome(e, kind) ==
    IF e = "base" THEN BaseLoadOutcome(kind)
    ELSE IF e = "ui" THEN UILoadOutcome(kind)
    ELSE CLILoadOutcome(kind)

\* The loop over the registry from entry i on, acc being the concepts
\* loaded so far; it stops at the first exception that is not caught.
RECURSIVE LoadEmbeddings(_, _, _, _)
LoadEmbeddings(e, reg, i, acc) ==
    IF i > Len(reg) THEN [names |-> acc, raised |-> FALSE]
    ELSE LET o == LoadOutcome(e, reg[i])
         IN  IF o = "raise" THEN [names |-> acc, raised |-> TRUE]
             ELSE LoadEmbeddings(e, reg, i + 1,
                                 IF o = "load" THEN Append(acc, i) ELSE acc)

\* __init__ of engine e: load the embeddings, then finish the constructor
\* unless the loader raised. No engine looks at how many were loaded.
Construct(e) ==
    LET r == LoadEmbeddings(e, registry, 1, <<>>)
    IN  /\ ctor[e] = "init"
        /\ ctor' = [ctor EXCEPT ![e] = IF r.raised THEN "failed" ELSE "started"]
        /\ loaded' = [loaded EXCEPT ![e] = r.names]
        /\ UNCHANGED <<registry, filterVars, uiVars, histVars, concept_names,
                       baseVars, sockVars, pureVars>>

BaseConstruct == Construct("base")
UIConstruct   == Construct("ui")
CLIConstruct  == Construct("cli")

InitLoad ==
    /\ landmark_window = <<>>
    /\ frame_count = NoCounts
    /\ last_concept = None
    /\ confirmed_concept = None
    /\ last_match_time = 0
    /\ last_matched_concept = None
    /\ now = StartTime
    /\ result = NoResult
    /\ gate = "idle"
    /\ running = TRUE
    /\ recent = <<>>
    /\ admitted = MeterOff
    /\ calls = <<>>
    /\ ret = None
    /\ concept_names = <<>>
    /\ base_window = <<>>
    /\ base_result = BaseNoResult
    /\ registry \in Registries
    /\ ctor = [e \in Engines |-> "init"]
    /\ loaded = [e \in Engines |-> <<>>]
    /\ SocketOff /\ NoCall

NextLoad == BaseConstruct \/ UIConstruct \/ CLIConstruct

SpecLoad == InitLoad /\ [][NextLoad]_vars

(***************************************************************************)
(* Socket.io transport of RecognitionEngineUI                              *)
(***************************************************************************)
\* _connect_socket: sio.connect raised; the exception is caught and
\* printed, and the worker thread ends.
SocketConnectFailsUncaught ==
    /\ sio = "connecting"
    /\ sio' = "failed"
    /\ running' = FALSE
    /\ UNCHANGED <<socket_connected, landmark_window,
                   last_match_time, last_matched_concept, now, result, gate,
                   recent, admitted, filterVars, histVars, concept_names,
                   baseVars, loadVars, pureVars>>

SocketConnectFails ==
    /\ sio = "connecting"
    /\ sio' = "failed"
    /\ UNCHANGED <<socket_connected, filterVars, uiVars, histVars,
                   concept_names, baseVars, loadVars, pureVars>>

\* The 'connect' handler, after the first connection or a reconnection.
OnConnect ==
    /\ sio \in {"connecting", "reconnecting"}
    /\ sio' = "connected"
    /\ socket_connected' = TRUE
    /\ UNCHANGED <<filterVars, uiVars, histVars, concept_names, baseVars,
                   loadVars, pureVars>>

\* The 'disconnect' handler; the client then tries to reconnect.
OnDisconnect ==
    /\ sio = "connected"
    /\ sio' = "reconnecting"
    /\ socket_connected' = FALSE
    /\ UNCHANGED <<filterVars, uiVars, histVars, concept_names, baseVars,
                   loadVars, pureVars>>

\* The client (reconnection=True, reconnection_attempts=5) runs out of
\* reconnection attempts and stops trying.
ReconnectGivesUp ==
    /\ sio = "reconnecting"
    /\ sio' = "gave_up"
    /\ UNCHANGED <<socket_connected, filterVars, uiVars, histVars,
                   concept_names, baseVars, loadVars, pureVars>>

\* The engine constructed with a socket_url: _setup_socket_io has started
\* the worker thread before the frame loop begins.
InitSocket ==
    /\ landmark_window = <<>>
    /\ frame_count = NoCounts
    /\ last_concept = None
    /\ confirmed_concept = None
    /\ last_match_time = 0
    /\ last_matched_concept = None
    /\ now = StartTime
    /\ result = NoResult
    /\ gate = "idle"
    /\ running = TRUE
    /\ recent = <<>>
    /\ admitted = MeterOff
    /\ calls = <<>>
    /\ ret = None
    /\ concept_names = ConceptOrder
    /\ base_window = <<>>
    /\ base_result = BaseNoResult
    /\ LoaderIdle /\ NoCall
    /\ socket_connected = FALSE
    /\ sio = "connecting"

NextSocket ==
    \/ FrameStep
    \/ ResetKey
    \/ SocketConnectFails
    \/ OnConnect
    \/ OnDisconnect
    \/ ReconnectGivesUp

SpecSocket == InitSocket /\ [][NextSocket]_vars

(***************************************************************************)
(* Landmark geometry. Coordinates of tracker points are integers in        *)
(* hundredths of the tracker's unit; results of the float arithmetic are   *)
(* exact rationals [n, d] in lowest terms with d > 0.                      *)
(***************************************************************************)
Abs(x) == IF x < 0 THEN -x ELSE x

RECURSIVE GCD(_, _)
GCD(a, b) == IF b = 0 THEN a ELSE GCD(b, a % b)

\* The rational n/d in lowest terms.
Rat(n, d) ==
    LET g  == GCD(Abs(n), Abs(d))
        sg == IF d < 0 THEN -1 ELSE 1
    IN  [n |-> (sg * n) \div g, d |-> (sg * d) \div g]

RatZero == Rat(0, 1)

RatAdd(a, b) == Rat(a.n * b.d + b.n * a.d, a.d * b.d)

\* np.linalg.norm of a 2-vector; the inputs below only use shoulder
\* offsets whose length is a whole number of hundredths.
Norm2D(dx, dy) ==
    CHOOSE r \in 0..(Abs(dx) + Abs(dy)) : r * r = dx * dx + dy * dy

\* A raw coordinate as a real number.
Real(q) == Rat(q, 100)

\* (q - (a + b) / 2), divided by the width w when w > 0.01.
CentredScaled(q, a, b, w) ==
    IF w > SHOULDER_EPS THEN Rat(2 * q - a - b, 2 * w)
    ELSE Rat(2 * q - a - b, 200)

\* q - (a + b) / 2
Centred(q, a, b) == Rat(2 * q - a - b, 200)

\* A variant that divides x and y by the shoulder width without first
\* subtracting the shoulder midpoint.
NormalizeLandmarksUncentred(F) ==
    IF Len(F) < POSE_POINTS THEN [i \in 1..Len(F) |->
                                    <<Real(F[i][1]), Real(F[i][2]), Real(F[i][3])>>]
    ELSE LET sl == F[SHOULDER_LEFT_IDX + 1]
             sr == F[SHOULDER_RIGHT_IDX + 1]
             w  == Norm2D(sl[1] - sr[1], sl[2] - sr[2])
         IN  [i \in 1..Len(F) |->
                <<IF w > SHOULDER_EPS THEN Rat(F[i][1], w) ELSE Real(F[i][1]),
                  IF w > SHOULDER_EPS THEN Rat(F[i][2], w) ELSE Real(F[i][2]),
                  Real(F[i][3])>>]

\* BaseRecognitionEngine.normalize_landmarks: x and y are centred on the
\* midpoint of rows 0 and 1 and divided by their distance; z is untouched.
NormalizeLandmarks(F) ==
    IF Len(F) < POSE_POINTS THEN [i \in 1..Len(F) |->
                                    <<Real(F[i][1]), Real(F[i][2]), Real(F[i][3])>>]
    ELSE LET sl == F[SHOULDER_LEFT_IDX + 1]
             sr == F[SHOULDER_RIGHT_IDX + 1]
             w  == Norm2D(sl[1] - sr[1], sl[2] - sr[2])
         IN  [i \in 1..Len(F) |->
                <<CentredScaled(F[i][1], sl[1], sr[1], w),
                  CentredScaled(F[i][2], sl[2], sr[2], w),
                  Real(F[i][3])>>]

\* EmbeddingGenerator._normalize_landmarks: with more than 12 rows, all
\* three coordinates are centred on the midpoint of rows 11 and 12 and
\* divided by the x,y distance of those rows.
BuilderNormalizeLandmarks(F) ==
    IF Len(F) > SHOULDER_CENTER_RIGHT
    THEN LET a == F[SHOULDER_CENTER_LEFT + 1]
             b == F[SHOULDER_CENTER_RIGHT + 1]
             w == Norm2D(a[1] - b[1], a[2] - b[2])
         IN  [i \in 1..Len(F) |->
                <<CentredScaled(F[i][1], a[1], b[1], w),
                  CentredScaled(F[i][2], a[2], b[2], w),
                  CentredScaled(F[i][3], a[3], b[3], w)>>]
    ELSE [i \in 1..Len(F) |->
            <<Real(F[i][1]), Real(F[i][2]), Real(F[i][3])>>]

\* RecognitionEngineUI._normalize_landmarks: subtract the midpoint of rows
\* 11 and 12 from every row, in all three coordinates; no scaling.
UINormalizeLandmarks(F) ==
    LET a == F[SHOULDER_LEFT + 1]
        b == F[SHOULDER_RIGHT + 1]
    IN  [i \in 1..Len(F) |->
           <<Centred(F[i][1], a[1], b[1]),
             Centred(F[i][2], a[2], b[2]),
             Centred(F[i][3], a[3], b[3])>>]

Normalizers == {"base", "builder", "ui"}

Normalize(fn, F) ==
    IF fn = "base" THEN NormalizeLandmarks(F)
    ELSE IF fn = "builder" THEN BuilderNormalizeLandmarks(F)
    ELSE UINormalizeLandmarks(F)

\* k * F + t
Transform(F, k, t) ==
    [i \in 1..Len(F) |->
       <<k * F[i][1] + t[1], k * F[i][2] + t[2], k * F[i][3] + t[3]>>]

Origin == <<0, 0, 0>>

\* The 21 rows of a hand whose wrist is at h (rows two hundredths apart
\* in x); all-zero rows for a hand the tracker did not find.
HandRows(h) ==
    [j \in 1..HAND_POINTS |->
       IF h = Origin THEN Origin ELSE <<h[1] + 2 * j, h[2], h[3]>>]

\* The combined frame pose[6] + left_hand[21] + right_hand[21] + face[4].
MakeFrame(sl, sr, hl, hr) ==
    <<sl, sr, <<sl[1] - 5, sl[2] + 20, sl[3]>>, <<sr[1] + 5, sr[2] + 20, sr[3]>>,
      <<sl[1] - 5, sl[2] + 40, sl[3] - 2>>, <<sr[1] + 5, sr[2] + 40, sr[3] - 2>>>>
    \o HandRows(hl) \o HandRows(hr)
    \o [j \in 1..FACE_POINTS |-> <<50, 10 + j, -3>>]

\* Shoulder pairs: 0.20 and 0.10 apart, exactly 0.01 apart, and both
\* shoulders reported at the same point.
ShoulderPairs ==
    { <<<<40, 30, -5>>, <<60, 30, -5>>>>,
      <<<<40, 30, -4>>, <<46, 38, 0>>>>,
      <<<<40, 30, 0>>,  <<41, 30, 0>>>>,
      <<<<40, 30, 0>>,  <<40, 30, 0>>>> }

LeftWrists  == {Origin, <<50, 50, -2>>, <<20, 70, 3>>, <<35, 45, 0>>}
RightWrists == {Origin, <<70, 55, 1>>}

Frames ==
    { MakeFrame(sp[1], sp[2], hl, hr) :
        sp \in ShoulderPairs, hl \in LeftWrists, hr \in RightWrists }

ScaleFactors == {1, 2, 3}
Translations == {Origin, <<10, -20, 0>>, <<0, 0, 5>>}

NotRun == [done |-> FALSE, plain |-> <<>>, moved |-> <<>>]

\* Normalizer fn applied to the frame and to its scaled, translated copy.
ApplyNormalizer(fn) ==
    /\ ~out[fn].done
    /\ out' = [out EXCEPT ![fn] =
                  [done  |-> TRUE,
                   plain |-> Normalize(fn, arg.F),
                   moved |-> Normalize(fn, Transform(arg.F, arg.k, arg.t))]]
    /\ UNCHANGED <<arg, filterVars, uiVars, histVars, concept_names, baseVars,
                   loadVars, sockVars>>

InitNormalize ==
    /\ landmark_window = <<>>
    /\ frame_count = NoCounts
    /\ last_concept = None
    /\ confirmed_concept = None
    /\ last_match_time = 0
    /\ last_matched_concept = None
    /\ now = StartTime
    /\ result = NoResult
    /\ gate = "idle"
    /\ running = TRUE
    /\ recent = <<>>
    /\ admitted = MeterOff
    /\ calls = <<>>
    /\ ret = None
    /\ concept_names = <<>>
    /\ base_window = <<>>
    /\ base_result = BaseNoResult
    /\ LoaderIdle /\ SocketOff
    /\ arg \in [F : Frames, k : ScaleFactors, t : Translations]
    /\ out = [fn \in Normalizers |-> NotRun]

NextNormalize == \E fn \in Normalizers : ApplyNormalizer(fn)

SpecNormalize == InitNormalize /\ [][NextNormalize]_vars

(***************************************************************************)
(* BaseRecognitionEngine.compute_embedding on concrete frames              *)
(***************************************************************************)
\* Rows of the left and of the right hand in the combined frame (1-based).
LeftHandRows  == (POSE_POINTS + 1)..(POSE_POINTS + HAND_POINTS)
RightHandRows == (POSE_POINTS + HAND_POINTS + 1)..(POSE_POINTS + 2 * HAND_POINTS)

\* is_frame_quality_good on a combined frame: both shoulder rows are not
\* all zero and some hand coordinate exceeds 0.01 in magnitude.
FrameQualityGood(F) ==
    /\ F[SHOULDER_LEFT_IDX + 1] # Origin
    /\ F[SHOULDER_RIGHT_IDX + 1] # Origin
    /\ \E i \in LeftHandRows \cup RightHandRows :
           \E c \in 1..3 : Abs(F[i][c]) > 1

\* normalized.flatten(), padded with zeros to EMBEDDING_DIM and cut there.
Features(F) ==
    LET nf == NormalizeLandmarks(F)
    IN  [s \in 1..EMBEDDING_DIM |->
           IF s <= 3 * Len(F)
           THEN nf[((s - 1) \div 3) + 1][((s - 1) % 3) + 1]
           ELSE RatZero]

RECURSIVE SumAt(_, _, _)
SumAt(feats, idx, s) ==
    IF idx = {} THEN RatZero
    ELSE LET i == CHOOSE x \in idx : TRUE
         IN  RatAdd(feats[i][s], SumAt(feats, idx \ {i}, s))

\* np.ma.mean over the frames whose value in slot s is not exactly 0;
\* filled(0) when every frame is masked.
Pooled(feats, s) ==
    LET kept  == {i \in DOMAIN feats : feats[i][s] # RatZero}
        total == SumAt(feats, kept, s)
    IN  IF kept = {} THEN RatZero
        ELSE Rat(total.n, total.d * Cardinality(kept))

\* compute_embedding on a window of combined frames; <<>> stands for None
\* (window not full, or fewer than MIN_WINDOW_QUALITY good frames).
ComputeEmbedding(win) ==
    IF Len(win) < WINDOW_SIZE THEN <<>>
    ELSE IF Cardinality({i \in 1..Len(win) : FrameQualityGood(win[i])}) * 100
            < MIN_WINDOW_QUALITY * Len(win)
    THEN <<>>
    ELSE LET feats == [i \in 1..Len(win) |-> Features(win[i])]
         IN  [s \in 1..EMBEDDING_DIM |-> Pooled(feats, s)]

\* The frame with its left_hand group missing (all-zero rows).
WithoutLeftHand(F) ==
    [i \in 1..Len(F) |-> IF i \in LeftHandRows THEN Origin ELSE F[i]]

\* A window of WINDOW_SIZE copies of F, and the same window with the
\* left hand missing in frame j.
SteadyWindow(F) == [i \in 1..WINDOW_SIZE |-> F]

DropoutWindow(F, j) ==
    [i \in 1..WINDOW_SIZE |-> IF i = j THEN WithoutLeftHand(F) ELSE F]

NotPooled == [done |-> FALSE, embedding |-> <<>>]

\* compute_embedding on the window with no missing data.
PoolSteady ==
    /\ ~out.steady.done
    /\ out' = [out EXCEPT !.steady =
                  [done |-> TRUE,
                   embedding |-> ComputeEmbedding(SteadyWindow(arg.F))]]
    /\ UNCHANGED <<arg, filterVars, uiVars, histVars, concept_names, baseVars,
                   loadVars, sockVars>>

\* compute_embedding on the window with one left hand missing.
PoolDropout ==
    /\ ~out.dropout.done
    /\ out' = [out EXCEPT !.dropout =
                  [done |-> TRUE,
                   embedding |-> ComputeEmbedding(DropoutWindow(arg.F, arg.j))]]
    /\ UNCHANGED <<arg, filterVars, uiVars, histVars, concept_names, baseVars,
                   loadVars, sockVars>>

InitPool ==
    /\ landmark_window = <<>>
    /\ frame_count = NoCounts
    /\ last_concept = None
    /\ confirmed_concept = None
    /\ last_match_time = 0
    /\ last_matched_concept = None
    /\ now = StartTime
    /\ result = NoResult
    /\ gate = "idle"
    /\ running = TRUE
    /\ recent = <<>>
    /\ admitted = MeterOff
    /\ calls = <<>>
    /\ ret = None
    /\ concept_names = <<>>
    /\ base_window = <<>>
    /\ base_result = BaseNoResult
    /\ LoaderIdle /\ SocketOff
    /\ arg \in [F : {G \in Frames : G[POSE_POINTS + 1] # Origin},
                 j : 1..WINDOW_SIZE]
    /\ out = [steady |-> NotPooled, dropout |-> NotPooled]

NextPool == PoolSteady \/ PoolDropout

SpecPool == InitPool /\ [][NextPool]_vars

(***************************************************************************)
(* EmbeddingGenerator: signature quality gate and aggregation              *)
(***************************************************************************)
\* Arithmetic on the exact rationals, and on 2-vectors of them.
RatMul(a, b) == Rat(a.n * b.n, a.d * b.d)

RatLeq(a, b) == a.n * b.d <= b.n * a.d

VecZero == <<RatZero, RatZero>>

Dot(u, v) == RatAdd(RatMul(u[1], v[1]), RatMul(u[2], v[2]))

\* np.sum and np.mean(axis=0) of the vectors vecs[i], i in idx.
RECURSIVE VecSum(_, _)
VecSum(vecs, idx) ==
    IF idx = {} THEN VecZero
    ELSE LET i    == CHOOSE x \in idx : TRUE
             rest == VecSum(vecs, idx \ {i})
         IN  <<RatAdd(vecs[i][1], rest[1]), RatAdd(vecs[i][2], rest[2])>>

VecMean(vecs, idx) ==
    LET s == VecSum(vecs, idx)
        n == Cardinality(idx)
    IN  <<Rat(s[1].n, s[1].d * n), Rat(s[2].n, s[2].d * n)>>

\* A recording is described by its number of frames, how many of them have
\* a valid pose, how many have a valid hand, and the embedding its frames
\* average to. Of the EMBEDDING_DIM components of an embedding only the
\* first two are kept (the others are taken as 0); recording i has length
\* 5 * i * i along one of a few directions, or is the zero vector.
EmbeddingDirections == {<<3, 4>>, <<-3, -4>>, <<4, -3>>, <<0, 0>>}

RecordingEmbedding(i, d) == <<i * i * d[1], i * i * d[2]>>

\* (good_pose, good_hand) of a recording: well above both minimum shares,
\* exactly at both (with 5 frames), short of valid poses, without hands.
QualityCounts ==
    { <<MaxFrames, 2>>, <<MaxFrames - 1, 1>>, <<MaxFrames - 2, 2>>,
      <<MaxFrames, 0>> }

RecordingsAt(i) ==
    { [total |-> MaxFrames, good_pose |-> q[1], good_hand |-> q[2],
       emb |-> RecordingEmbedding(i, d)] :
         q \in QualityCounts, d \in EmbeddingDirections }

\* The recordings of one concept: recording i is one of RecordingsAt(i).
RecordingLists ==
    { [i \in 1..MaxRecordings |->
         [total |-> MaxFrames, good_pose |-> q[i][1], good_hand |-> q[i][2],
          emb |-> RecordingEmbedding(i, d[i])]] :
        q \in [1..MaxRecordings -> QualityCounts],
        d \in [1..MaxRecordings -> EmbeddingDirections] }

\* A gate that rejects a recording at exactly the minimum pose share.
AssessSignatureQualityStrict(rec) ==
    IF rec.total = 0 THEN [pose_pct |-> 0, hand_pct |-> 0, is_usable |-> FALSE]
    ELSE LET pose_pct == (100 * rec.good_pose) \div rec.total
             hand_pct == (100 * rec.good_hand) \div rec.total
         IN  [pose_pct |-> pose_pct, hand_pct |-> hand_pct,
              is_usable |-> /\ pose_pct > MIN_POSE_QUALITY
                            /\ hand_pct >= MIN_HAND_QUALITY]

\* _assess_signature_quality: (pose_pct, hand_pct, is_usable).
AssessSignatureQuality(rec) ==
    IF rec.total = 0 THEN [pose_pct |-> 0, hand_pct |-> 0, is_usable |-> FALSE]
    ELSE LET pose_pct == (100 * rec.good_pose) \div rec.total
             hand_pct == (100 * rec.good_hand) \div rec.total
         IN  [pose_pct |-> pose_pct, hand_pct |-> hand_pct,
              is_usable |-> /\ pose_pct >= MIN_POSE_QUALITY
                            /\ hand_pct >= MIN_HAND_QUALITY]

\* The None of the builder, and an embedding it returns.
NoEmbedding == [none |-> TRUE, value |-> VecZero]

AnEmbedding(v) == [none |-> FALSE, value |-> v]

\* _compute_signature_embedding: None for a recording that fails the
\* quality gate, otherwise the average of its frame embeddings.
ComputeSignatureEmbedding(rec) ==
    IF AssessSignatureQuality(rec).is_usable
    THEN AnEmbedding(<<Rat(rec.emb[1], 1), Rat(rec.emb[2], 1)>>)
    ELSE NoEmbedding

\* sim >= SIMILARITY_THRESHOLD for sim = p / (sqrt(q) + 1e-8), p being the
\* dot product of a unit vector with the mean of the unit vectors and q
\* the squared length of that mean. With q = 0 the similarity is 0.
SimilarEnough(p, q) ==
    /\ p.n > 0
    /\ RatLeq(RatMul(Rat(SIMILARITY_THRESHOLD * SIMILARITY_THRESHOLD, 10000), q),
              RatMul(p, p))

\* _compute_aggregated_embedding that returns None when the similarity
\* test excludes every recording.
ComputeAggregatedEmbeddingNoFallback(recs) ==
    LET embeddings == {i \in DOMAIN recs :
                          ~ComputeSignatureEmbedding(recs[i]).none}
        raw        == [i \in embeddings |->
                          ComputeSignatureEmbedding(recs[i]).value]
        norms      == [i \in embeddings |->
                          LET n == Norm2D(recs[i].emb[1], recs[i].emb[2])
                          IN  IF n = 0 THEN 1 ELSE n]
        normalized == [i \in embeddings |->
                          <<Rat(recs[i].emb[1], norms[i]),
                            Rat(recs[i].emb[2], norms[i])>>]
        mean_normalized == VecMean(normalized, embeddings)
        valid      == {i \in embeddings :
                          SimilarEnough(Dot(normalized[i], mean_normalized),
                                        Dot(mean_normalized, mean_normalized))}
    IN  IF embeddings = {} THEN NoEmbedding
        ELSE IF Cardinality(embeddings) = 1
        THEN AnEmbedding(raw[CHOOSE i \in embeddings : TRUE])
        ELSE IF valid = {} THEN NoEmbedding
        ELSE AnEmbedding(VecMean(raw, valid))

\* _compute_aggregated_embedding: recordings without an embedding are
\* skipped; a single survivor is returned as it is; otherwise each
\* embedding is divided by its norm (1 for a norm below 1e-8), those whose
\* similarity to the direction of the mean is below the threshold are left
\* out, unless that leaves none, and the rest are averaged.
ComputeAggregatedEmbedding(recs) ==
    LET embeddings == {i \in DOMAIN recs :
                          ~ComputeSignatureEmbedding(recs[i]).none}
        raw        == [i \in embeddings |->
                          ComputeSignatureEmbedding(recs[i]).value]
        norms      == [i \in embeddings |->
                          LET n == Norm2D(recs[i].emb[1], recs[i].emb[2])
                          IN  IF n = 0 THEN 1 ELSE n]
        normalized == [i \in embeddings |->
                          <<Rat(recs[i].emb[1], norms[i]),
                            Rat(recs[i].emb[2], norms[i])>>]
        mean_normalized == VecMean(normalized, embeddings)
        valid      == {i \in embeddings :
                          SimilarEnough(Dot(normalized[i], mean_normalized),
                                        Dot(mean_normalized, mean_normalized))}
    IN  IF embeddings = {} THEN NoEmbedding
        ELSE IF Cardinality(embeddings) = 1
        THEN AnEmbedding(raw[CHOOSE i \in embeddings : TRUE])
        ELSE IF valid = {} THEN AnEmbedding(VecMean(raw, embeddings))
        ELSE AnEmbedding(VecMean(raw, valid))

\* generate_embeddings for one concept.
BuildConcept ==
    /\ ~out.done
    /\ out' = [done |-> TRUE, result |-> ComputeAggregatedEmbedding(arg)]
    /\ UNCHANGED <<arg, filterVars, uiVars, histVars, concept_names, baseVars,
                   loadVars, sockVars>>

InitBuild ==
    /\ landmark_window = <<>>
    /\ frame_count = NoCounts
    /\ last_concept = None
    /\ confirmed_concept = None
    /\ last_match_time = 0
    /\ last_matched_concept = None
    /\ now = StartTime
    /\ result = NoResult
    /\ gate = "idle"
    /\ running = TRUE
    /\ recent = <<>>
    /\ admitted = MeterOff
    /\ calls = <<>>
    /\ ret = None
    /\ concept_names = <<>>
    /\ base_window = <<>>
    /\ base_result = BaseNoResult
    /\ LoaderIdle /\ SocketOff
    /\ arg \in RecordingLists
    /\ out = [done |-> FALSE, result |-> NoEmbedding]

NextBuild == BuildConcept

SpecBuild == InitBuild /\ [][NextBuild]_vars

(***************************************************************************)
(* EmbeddingGenerator._remove_outlier_frames. A frame embedding is kept    *)
(* as its first component, an integer; medians of medians need eighths,    *)
(* so the arithmetic is done on the values times 8.                        *)
(***************************************************************************)
\* The inline limits of the function: fewer frames are returned as they
\* are; 0.6745 (in ten-thousandths) scales the modified z-score.
MIN_OUTLIER_FRAMES == 5
OUTLIER_THRESHOLD  == 3
Z_SCALE            == 6745

\* The k-th smallest element of a non-empty sequence of integers.
SortedAt(s, k) ==
    CHOOSE x \in {s[i] : i \in 1..Len(s)} :
        /\ Cardinality({i \in 1..Len(s) : s[i] < x}) < k
        /\ Cardinality({i \in 1..Len(s) : s[i] <= x}) >= k

\* np.median: the middle element, or the mean of the two middle ones.
Median(s) ==
    LET n == Len(s)
    IN  IF n % 2 = 1 THEN SortedAt(s, (n + 1) \div 2)
        ELSE (SortedAt(s, n \div 2) + SortedAt(s, n \div 2 + 1)) \div 2

\* distances - np.median(distances), on the values times 8.
OutlierDeviations(frames) ==
    LET v         == [i \in 1..Len(frames) |-> 8 * frames[i]]
        median    == Median(v)
        distances == [i \in 1..Len(frames) |-> Abs(v[i] - median)]
    IN  [i \in 1..Len(frames) |-> distances[i] - Median(distances)]

\* mad = np.median(np.abs(distances - np.median(distances))), times 8.
OutlierMAD(frames) ==
    LET dev == OutlierDeviations(frames)
    IN  Median([i \in 1..Len(frames) |-> Abs(dev[i])])

\* The frames i..Len(frames) whose |modified_z| is below the threshold.
RECURSIVE KeepInliers(_, _, _, _)
KeepInliers(frames, dev, mad, i) ==
    IF i > Len(frames) THEN <<>>
    ELSE (IF Z_SCALE * Abs(dev[i]) < OUTLIER_THRESHOLD * 10000 * mad
          THEN <<frames[i]>> ELSE <<>>)
         \o KeepInliers(frames, dev, mad, i + 1)

\* _remove_outlier_frames without the test for too few frames.
RemoveOutlierFramesAnyLength(frames) ==
    IF frames = <<>> THEN frames
    ELSE LET mad      == OutlierMAD(frames)
             filtered == KeepInliers(frames, OutlierDeviations(frames), mad, 1)
         IN  IF mad = 0 THEN frames
             ELSE IF filtered # <<>> THEN filtered ELSE frames

\* _remove_outlier_frames
RemoveOutlierFrames(frames) ==
    IF Len(frames) < MIN_OUTLIER_FRAMES THEN frames
    ELSE LET mad      == OutlierMAD(frames)
             filtered == KeepInliers(frames, OutlierDeviations(frames), mad, 1)
         IN  IF mad = 0 THEN frames
             ELSE IF filtered # <<>> THEN filtered ELSE frames

\* First components of frame embeddings, in hundredths.
FrameValues == {0, 1, 2, 40}

\* Frame embeddings of one recording: up to one frame more than MaxFrames.
FrameLists == UNION {[1..n -> FrameValues] : n \in 0..(MaxFrames + 1)}

\* _remove_outlier_frames is called on the frame embeddings in arg.
RemoveOutliers ==
    /\ ~out.done
    /\ out' = [done |-> TRUE, frames |-> RemoveOutlierFrames(arg)]
    /\ UNCHANGED <<arg, filterVars, uiVars, histVars, concept_names, baseVars,
                   loadVars, sockVars>>

InitOutlier ==
    /\ landmark_window = <<>>
    /\ frame_count = NoCounts
    /\ last_concept = None
    /\ confirmed_concept = None
    /\ last_match_time = 0
    /\ last_matched_concept = None
    /\ now = StartTime
    /\ result = NoResult
    /\ gate = "idle"
    /\ running = TRUE
    /\ recent = <<>>
    /\ admitted = MeterOff
    /\ calls = <<>>
    /\ ret = None
    /\ concept_names = <<>>
    /\ base_window = <<>>
    /\ base_result = BaseNoResult
    /\ LoaderIdle /\ SocketOff
    /\ arg \in FrameLists
    /\ out = [done |-> FALSE, frames |-> <<>>]

NextOutlier == RemoveOutliers

SpecOutlier == InitOutlier /\ [][NextOutlier]_vars

(***************************************************************************)
(* A rebuild of the persisted library and the start of a matcher on it     *)
(***************************************************************************)
Languages == {"asl", "bsl"}

\* The embedding file of a registry entry: not there, left by an earlier
\* build, or written by this one.
AbsentFile    == [present |-> FALSE, build |-> "none", value |-> VecZero]
EarlierFile   == [present |-> TRUE, build |-> "earlier",
                  value |-> <<Rat(7, 1), Rat(7, 1)>>]
SavedFile(v)  == [present |-> TRUE, build |-> "this", value |-> v]

\* np.save under `if embedding is not None`: without an embedding the
\* file is neither written nor removed.
Persist(file, e) == IF e.none THEN file ELSE SavedFile(e.value)

\* generate_embeddings: every ASL entry with signatures gets its
\* aggregated embedding, every BSL entry with a target the embedding of
\* that one recording.
GenerateEmbeddings(disk, recs) ==
    [asl |-> [c \in Concepts |->
                IF recs.asl[c] = <<>> THEN disk.asl[c]
                ELSE Persist(disk.asl[c],
                             ComputeAggregatedEmbedding(recs.asl[c]))],
     bsl |-> [c \in Concepts |->
                IF recs.bsl[c] = <<>> THEN disk.bsl[c]
                ELSE Persist(disk.bsl[c],
                             ComputeSignatureEmbedding(recs.bsl[c][1]))]]

\* os.path.exists on the embedding file of an entry.
FileKind(file) == IF file.present THEN "ok" ELSE "missing"

\* BaseRecognitionEngine._load_embeddings over the files of one language:
\* the embeddings dict, AbsentFile standing for a concept not in it.
LoadLibrary(files) ==
    [c \in Concepts |->
        IF BaseLoadOutcome(FileKind(files[c])) = "load" THEN files[c]
        ELSE AbsentFile]

\* Recordings offered to a rebuild: good ones and ones short of valid
\* poses, all along one direction.
RebuildRecordings(i) ==
    {r \in RecordingsAt(i) :
        /\ r.emb = RecordingEmbedding(i, <<3, 4>>)
        /\ r.good_hand = 2}

RebuildLists(n) ==
    {recs \in [1..n -> UNION {RebuildRecordings(i) : i \in 1..n}] :
        \A i \in 1..n : recs[i] \in RebuildRecordings(i)}

RebuildInputs ==
    [asl : [Concepts -> UNION {RebuildLists(n) : n \in 0..(MaxRecordings - 1)}],
     bsl : [Concepts -> RebuildLists(0) \cup RebuildLists(1)]]

Disks == [asl : [Concepts -> {AbsentFile, EarlierFile}],
          bsl : [Concepts -> {AbsentFile, EarlierFile}]]

NotStarted == [done |-> FALSE, after_rebuild |-> FALSE,
               embeddings |-> [c \in Concepts |-> AbsentFile]]

\* One run of generate_embeddings over the recordings in arg.
Rebuild ==
    /\ ~out.built
    /\ out' = [out EXCEPT !.built = TRUE,
                          !.disk = GenerateEmbeddings(out.disk, arg)]
    /\ UNCHANGED <<arg, filterVars, uiVars, histVars, concept_names, baseVars,
                   loadVars, sockVars>>

\* A BaseRecognitionEngine for language lang is constructed.
StartMatcher(lang) ==
    /\ ~out.matcher[lang].done
    /\ out' = [out EXCEPT !.matcher[lang] =
                  [done |-> TRUE, after_rebuild |-> out.built,
                   embeddings |-> LoadLibrary(out.disk[lang])]]
    /\ UNCHANGED <<arg, filterVars, uiVars, histVars, concept_names, baseVars,
                   loadVars, sockVars>>

StartMatcherStep == \E lang \in Languages : StartMatcher(lang)

InitRebuild ==
    /\ landmark_window = <<>>
    /\ frame_count = NoCounts
    /\ last_concept = None
    /\ confirmed_concept = None
    /\ last_match_time = 0
    /\ last_matched_concept = None
    /\ now = StartTime
    /\ result = NoResult
    /\ gate = "idle"
    /\ running = TRUE
    /\ recent = <<>>
    /\ admitted = MeterOff
    /\ calls = <<>>
    /\ ret = None
    /\ concept_names = <<>>
    /\ base_window = <<>>
    /\ base_result = BaseNoResult
    /\ LoaderIdle /\ SocketOff
    /\ arg \in RebuildInputs
    /\ \E d \in Disks :
           out = [built |-> FALSE, disk |-> d,
                  matcher |-> [lang \in Languages |-> NotStarted]]

NextRebuild == Rebuild \/ StartMatcherStep

SpecRebuild == InitRebuild /\ [][NextRebuild]_vars

(***************************************************************************)
(* The Tier 4 classification of the three engines on one score table       *)
(***************************************************************************)
NotClassified == [done |-> FALSE, raised |-> FALSE, status |-> "none", gap |-> 0]

Classified(status, gap) ==
    [done |-> TRUE, raised |-> FALSE, status |-> status, gap |-> gap]

\* The call ended in an exception; status is what had been computed.
Raised(status) ==
    [done |-> TRUE, raised |-> TRUE, status |-> status, gap |-> 0]

\* BaseRecognitionEngine.match_embedding: status and gap_to_second.
BaseClassify(names, sc) ==
    LET r == MatchEmbedding(names, sc)
    IN  Classified(r.verification_status, r.gap_to_second)

\* RecognitionEngineUI.recognize up to the status, with a temporal filter
\* that has not confirmed anything: sorted_scores[0] raises IndexError on
\* an empty table; the runner-up of a single concept counts as 0.0.
UIClassify(names, sc) ==
    IF names = <<>> THEN Raised("none")
    ELSE LET best_score   == BestScore(names, sc)
             second_score == IF Len(names) > 1 THEN SecondScore(names, sc)
                             ELSE 0
             gap          == best_score - second_score
         IN  Classified(UIVerificationStatus(None, best_score, gap), gap)

\* The status RecognitionEngine.recognize computes: a single concept at or
\* above the threshold is 'verified' without a gap test.
CLITierStatus(names, sc) ==
    IF BestScore(names, sc) < COSINE_SIM_THRESHOLD THEN "low_confidence"
    ELSE IF Len(names) > 1
    THEN IF BestScore(names, sc) - SecondScore(names, sc) < TIER_4_GAP_THRESHOLD
         THEN "cross_concept_noise"
         ELSE "verified"
    ELSE "verified"

\* RecognitionEngine.recognize: IndexError on an empty table; otherwise the
\* status is computed and RecognitionResult is then called with the keyword
\* bsl_target, which the dataclass does not have: TypeError.
CLIClassify(names, sc) ==
    IF names = <<>> THEN Raised("none")
    ELSE Raised(CLITierStatus(names, sc))

Classify(e, names, sc) ==
    IF e = "base" THEN BaseClassify(names, sc)
    ELSE IF e = "ui" THEN UIClassify(names, sc)
    ELSE CLIClassify(names, sc)

\* Engine e classifies the score table in arg.
ClassifyScores(e) ==
    /\ ~out[e].done
    /\ out' = [out EXCEPT ![e] = Classify(e, concept_names, arg)]
    /\ UNCHANGED <<arg, filterVars, uiVars, histVars, concept_names, baseVars,
                   loadVars, sockVars>>

ClassifyStep == \E e \in Engines : ClassifyScores(e)

InitTier ==
    /\ landmark_window = <<>>
    /\ frame_count = NoCounts
    /\ last_concept = None
    /\ confirmed_concept = None
    /\ last_match_time = 0
    /\ last_matched_concept = None
    /\ now = StartTime
    /\ result = NoResult
    /\ gate = "idle"
    /\ running = TRUE
    /\ recent = <<>>
    /\ admitted = MeterOff
    /\ calls = <<>>
    /\ ret = None
    /\ concept_names \in Libraries
    /\ base_window = <<>>
    /\ base_result = BaseNoResult
    /\ LoaderIdle /\ SocketOff
    /\ arg \in [Loaded(concept_names) -> Scores]
    /\ out = [e \in Engines |-> NotClassified]

NextTier == ClassifyStep

SpecTier == InitTier /\ [][NextTier]_vars

(***************************************************************************)
(* Claims                                                                  *)
(***************************************************************************)
Qualifies(call, c) ==
    call.concept = c /\ call.similarity >= FILTER_THRESHOLD

\* The MIN_FRAMES most recent update calls all had best concept c and a
\* similarity at or above the threshold.
AllRecentQualify(c) ==
    /\ Len(calls) = MIN_FRAMES
    /\ \A i \in 1..MIN_FRAMES : Qualifies(calls[i], c)

C2_VerifiedOnlyWhenConfirmed ==
    [][ now' # now =>
          /\ result'.verification_status = "verified" =>
                /\ result'.frame_window_complete
                /\ frame_count'[result'.concept] >= MIN_FRAMES
                /\ confirmed_concept' = result'.concept
          /\ ( /\ result'.frame_window_complete
               /\ result'.similarity_score >= COSINE_SIM_THRESHOLD
               /\ result'.gap_to_second >= TIER_4_GAP_THRESHOLD
               /\ frame_count'[result'.concept] < MIN_FRAMES )
             => result'.verification_status = "pending_confirmation" ]_vars

\* C2 witness: a clean match one frame short of confirmation is pending.
C2_Witness ==
    /\ result.verification_status = "pending_confirmation"
    /\ result.frame_window_complete
    /\ Len(landmark_window) = WINDOW_SIZE
    /\ frame_count[result.concept] = MIN_FRAMES - 1

\* C3: every full-window frame with best >= theta1 and
\* (best - second) < theta2 is reported 'cross_concept_noise', in every
\* state of the temporal filter (an ambiguous match is never 'verified').
C3_AmbiguousNeverVerified ==
    ( /\ result.frame_window_complete
      /\ result.similarity_score >= COSINE_SIM_THRESHOLD
      /\ result.gap_to_second < TIER_4_GAP_THRESHOLD )
    => result.verification_status = "cross_concept_noise"

\* C4: two confirmations of one concept inside the cooldown produce exactly
\* one emission: whenever a frame is reported 'verified', an emission has
\* been accepted at most cooldown_ms ago (on this frame or on an earlier
\* one).
C4_ConfirmationEmittedOnce ==
    result.verification_status = "verified" =>
        /\ last_matched_concept # None
        /\ last_match_time > 0
        /\ now - last_match_time <= DEFAULT_COOLDOWN_MS

\* C5: the landmark window never holds more than WINDOW_SIZE frames, and
\* they are exactly the most recent frames admitted since the last reset,
\* in arrival order.
C5_WindowIsMostRecent ==
    /\ Len(landmark_window) <= WINDOW_SIZE
    /\ landmark_window = recent

\* C5 witness: a full window after at least one overflow push (the filter
\* has counted two scored frames), holding two different frames.
C5_Witness ==
    /\ Len(landmark_window) = WINDOW_SIZE
    /\ \E c \in Concepts : frame_count[c] >= 2
    /\ landmark_window[1] # landmark_window[WINDOW_SIZE]

C7_LowQualityWindowNotClassified ==
    (Len(landmark_window) = WINDOW_SIZE /\ QualityTooLow(landmark_window))
    => (~result.scored /\ result.concept = None)

\* C8: a frame in which a shoulder point is invalid is never appended to
\* the landmark window.
C8_InvalidShouldersNeverAdmitted ==
    \A i \in 1..Len(landmark_window) : landmark_window[i].shoulders

\* The highest score of a score table, and the runner-up's (the highest
\* after removing one entry that attains the top).
TopScore(sc) == MaxOf({sc[c] : c \in DOMAIN sc})

RunnerUpScore(sc) ==
    LET top  == TopScore(sc)
        tops == {c \in DOMAIN sc : sc[c] = top}
    IN  IF Cardinality(tops) > 1 THEN top
        ELSE MaxOf({sc[c] : c \in DOMAIN sc \ tops})

C10_ClearedOnDropOrChange ==
    LET n == Len(calls)
    IN  ( /\ n >= 1
          /\ \/ calls[n].similarity < FILTER_THRESHOLD
             \/ (n >= 2 /\ calls[n].concept # calls[n - 1].concept) )
        => (confirmed_concept = None /\ ret = None)

\* C11: a frame whose result is 'verified' reaches the cooldown gate in the
\* same loop iteration (the gate accepts or suppresses it), the loop goes
\* on to the next frame, and an accepted frame has stamped last_match_time.
C11_VerifiedReachesGate ==
    result.verification_status = "verified" =>
        /\ running
        /\ gate \in {"emit", "suppressed"}
        /\ gate = "emit" => last_match_time = now

\* C12: every processed frame yields a result whose status is one of
\* insufficient_data, low_confidence, cross_concept_noise,
\* pending_confirmation, verified, and a frame that arrives while the
\* window is not yet full is reported as insufficient_data.
C12_WellDefinedStatus ==
    now > StartTime =>
        /\ result.verification_status \in
               {"insufficient_data", "low_confidence", "cross_concept_noise",
                "pending_confirmation", "verified"}
        /\ ~result.frame_window_complete =>
               result.verification_status = "insufficient_data"

\* C13: with no concept embeddings loaded, a frame that fills the window is
\* matched without an exception: the loop keeps running and the result is
\* 'low_confidence' with no concept.
C13_EmptyLibraryDegrades ==
    (concept_names = <<>> /\ Len(landmark_window) = WINDOW_SIZE) =>
        /\ running
        /\ result.verification_status = "low_confidence"
        /\ result.concept = None

\* C14: an engine whose loader loaded no concept does not start: every
\* constructed engine has at least one concept.
C14_RefusesEmptyLibrary ==
    \A e \in Engines : ctor[e] = "started" => loaded[e] # <<>>

\* The concepts of a registry whose embedding is loadable, in file order.
RECURSIVE OkConcepts(_, _)
OkConcepts(reg, i) ==
    IF i > Len(reg) THEN <<>>
    ELSE IF reg[i] = "ok" THEN <<i>> \o OkConcepts(reg, i + 1)
    ELSE OkConcepts(reg, i + 1)

\* C15: a constructed matcher holds exactly the concepts whose embedding
\* loads, and when at least one embedding loads, a missing or corrupt
\* file elsewhere in the registry does not abort the construction.
C15_BadFileExcludesOnlyItsConcept ==
    \A e \in {"base", "ui"} :
        /\ ctor[e] = "started" => loaded[e] = OkConcepts(registry, 1)
        /\ OkConcepts(registry, 1) # <<>> => ctor[e] # "failed"

C18_NormalizationInvariant ==
    out["base"].done => out["base"].plain = out["base"].moved

\* C17: when both windows yield an embedding, the window with one frame's
\* left_hand group missing has, in every left_hand coordinate slot, the
\* pooled value of the window with no missing data.
C17_MaskedPooling ==
    ( /\ out.steady.done /\ out.dropout.done
      /\ out.steady.embedding # <<>> /\ out.dropout.embedding # <<>> )
    => \A i \in LeftHandRows : \A c \in 1..3 :
          out.dropout.embedding[3 * (i - 1) + c]
              = out.steady.embedding[3 * (i - 1) + c]

\* Distance of the two shoulder rows of a combined frame, in hundredths.
ShoulderWidth(F) ==
    Norm2D(F[SHOULDER_LEFT_IDX + 1][1] - F[SHOULDER_RIGHT_IDX + 1][1],
           F[SHOULDER_LEFT_IDX + 1][2] - F[SHOULDER_RIGHT_IDX + 1][2])

\* C18 (amended): when the shoulder widths of F and of k*F + t both exceed
\* 0.01, normalize_landmarks gives every point the same x and y for both
\* frames; z is passed through, so the copy keeps z = k*z + t_z.
C18_InvariantInXY ==
    ( /\ out["base"].done
      /\ ShoulderWidth(arg.F) > SHOULDER_EPS
      /\ ShoulderWidth(Transform(arg.F, arg.k, arg.t)) > SHOULDER_EPS )
    => \A i \in 1..Len(arg.F) :
          /\ out["base"].plain[i][1] = out["base"].moved[i][1]
          /\ out["base"].plain[i][2] = out["base"].moved[i][2]
          /\ out["base"].plain[i][3] = Real(arg.F[i][3])
          /\ out["base"].moved[i][3] = Real(arg.k * arg.F[i][3] + arg.t[3])

\* C18 witness: a frame with oblique shoulders 0.10 apart, doubled and
\* shifted, normalizes to the same x,y with shoulder distance 1, while
\* the z of its wrist row differs between the two results.
C18_Witness ==
    /\ out["base"].done
    /\ arg.k = 2
    /\ arg.t = <<10, -20, 0>>
    /\ ShoulderWidth(arg.F) = 10
    /\ out["base"].plain[2][1] = Rat(3, 10)
    /\ out["base"].moved[2][2] = Rat(4, 10)
    /\ out["base"].plain[5][3] # out["base"].moved[5][3]

\* C19: the builder's and the matcher's normalizers produce the same
\* coordinates for every 52-point frame.
C19_SharedNormalization ==
    (out["base"].done /\ out["builder"].done)
    => out["builder"].plain = out["base"].plain

\* The recordings whose share of valid-pose frames is at least 80% and
\* whose share of frames with a valid hand is at least 20%.
PassingRecordings(recs) ==
    {i \in DOMAIN recs :
        /\ recs[i].total > 0
        /\ 100 * recs[i].good_pose >= 80 * recs[i].total
        /\ 100 * recs[i].good_hand >= 20 * recs[i].total}

\* The unit vector of an integer vector (the zero vector for zero).
UnitVector(e) ==
    LET n == Norm2D(e[1], e[2])
    IN  IF n = 0 THEN VecZero ELSE <<Rat(e[1], n), Rat(e[2], n)>>

\* The cosine of recording i to the sum U of the unit vectors of the
\* recordings in S is at least 1/2: u.U > 0 and 4 (u.U)^2 >= U.U.
CloseToMeanDirection(recs, S, i) ==
    LET units == [j \in S |-> UnitVector(recs[j].emb)]
        U     == VecSum(units, S)
        p     == Dot(units[i], U)
    IN  /\ p.n > 0
        /\ RatLeq(Dot(U, U), RatMul(Rat(4, 1), RatMul(p, p)))

\* The recordings of S the canonical mean is taken over.
Canonical(recs, S) ==
    LET close == {i \in S : CloseToMeanDirection(recs, S, i)}
    IN  IF Cardinality(S) <= 1 \/ close = {} THEN S ELSE close

RECURSIVE SumComponent(_, _, _)
SumComponent(recs, S, c) ==
    IF S = {} THEN 0
    ELSE LET i == CHOOSE x \in S : TRUE
         IN  recs[i].emb[c] + SumComponent(recs, S \ {i}, c)

\* The arithmetic mean of the embeddings of the recordings in S.
MeanOf(recs, S) ==
    <<Rat(SumComponent(recs, S, 1), Cardinality(S)),
      Rat(SumComponent(recs, S, 2), Cardinality(S))>>

\* C20: absent similarity exclusion, the canonical embedding is the mean
\* of the embeddings of exactly the recordings that pass the quality
\* gate, and there is none when no recording passes.
C20_SignatureQualityGate ==
    LET pass == PassingRecordings(arg)
    IN  (out.done /\ Canonical(arg, pass) = pass)
        => out.result = IF pass = {} THEN NoEmbedding
                        ELSE AnEmbedding(MeanOf(arg, pass))

\* C20 witness: of three recordings the first has 60% valid-pose frames,
\* the other two pass (the second at exactly 80% and 20%), and the
\* canonical embedding is the mean of those of the second and the third.
C20_Witness ==
    /\ out.done
    /\ Len(arg) = 3
    /\ arg[1].total = 5 /\ arg[1].good_pose = 3 /\ arg[1].good_hand = 2
    /\ PassingRecordings(arg) = {2, 3}
    /\ arg[2].good_pose = 4 /\ arg[2].good_hand = 1
    /\ arg[2].emb = <<12, 16>> /\ arg[3].emb = <<27, 36>>
    /\ out.result = AnEmbedding(<<Rat(39, 2), Rat(26, 1)>>)

\* C21: after generate_embeddings has completed, the persisted embedding
\* of every concept is the one computed from the recordings of this run
\* (none when the run yielded none), and a matcher started afterwards
\* loads no embedding of an earlier build.
C21_RebuildReplacesWholesale ==
    /\ out.built =>
         \A c \in Concepts :
            /\ out.disk.asl[c] =
                  LET e == ComputeAggregatedEmbedding(arg.asl[c])
                  IN  IF e.none THEN AbsentFile ELSE SavedFile(e.value)
            /\ out.disk.bsl[c] =
                  IF arg.bsl[c] = <<>> THEN AbsentFile
                  ELSE LET e == ComputeSignatureEmbedding(arg.bsl[c][1])
                       IN  IF e.none THEN AbsentFile ELSE SavedFile(e.value)
    /\ \A lang \in Languages :
         (out.matcher[lang].done /\ out.matcher[lang].after_rebuild) =>
            \A c \in Concepts :
               out.matcher[lang].embeddings[c].build # "earlier"

\* C22: immediately after a manual reset the landmark window is empty and
\* the temporal filter has last_concept = None, confirmed_concept = None
\* and every count at zero (the 'r' key is the only step of the loop that
\* leaves the clock alone).
C22_ResetClears ==
    [][ now' = now =>
          /\ landmark_window' = <<>>
          /\ frame_count' = NoCounts
          /\ last_concept' = None
          /\ confirmed_concept' = None ]_vars

\* C22 witness: the loop has scored a frame (which leaves last_concept
\* set) and a reset has since emptied the window and cleared the filter.
C22_Witness ==
    /\ running
    /\ result.scored
    /\ result.similarity_score >= FILTER_THRESHOLD
    /\ landmark_window = <<>>
    /\ frame_count = NoCounts
    /\ last_concept = None

\* C23: for a frame whose shoulder width is below 0.01 the normalizers of
\* the matcher and of the builder return a rejection (no frame), so no
\* coordinate of such a frame is passed on.
C23_DegenerateRejected ==
    /\ (out["base"].done /\ ShoulderWidth(arg.F) < SHOULDER_EPS)
          => out["base"].plain = <<>>
    /\ ( /\ out["builder"].done
         /\ Norm2D(arg.F[SHOULDER_CENTER_LEFT + 1][1]
                      - arg.F[SHOULDER_CENTER_RIGHT + 1][1],
                   arg.F[SHOULDER_CENTER_LEFT + 1][2]
                      - arg.F[SHOULDER_CENTER_RIGHT + 1][2]) < SHOULDER_EPS )
          => out["builder"].plain = <<>>

\* a is an order-preserving subsequence of b.
RECURSIVE IsSubsequence(_, _)
IsSubsequence(a, b) ==
    IF a = <<>> THEN TRUE
    ELSE IF b = <<>> THEN FALSE
    ELSE IF Head(a) = Head(b) THEN IsSubsequence(Tail(a), Tail(b))
    ELSE IsSubsequence(a, Tail(b))

\* C24: _remove_outlier_frames returns its input unchanged when given
\* fewer than 5 frames or when the MAD of the distances is 0, and for
\* every non-empty input it returns a non-empty order-preserving
\* subsequence of the input.
C24_OutlierRejectionKeepsFrames ==
    out.done =>
        /\ Len(arg) < 5 => out.frames = arg
        /\ (arg # <<>> /\ OutlierMAD(arg) = 0) => out.frames = arg
        /\ arg # <<>> =>
              /\ out.frames # <<>>
              /\ IsSubsequence(out.frames, arg)

\* C24 witness: of five frames the one far from the median is removed and
\* the other four are returned in their order.
C24_Witness ==
    /\ out.done
    /\ arg = <<0, 1, 40, 2, 1>>
    /\ out.frames = <<0, 1, 2, 1>>

\* C25: with exactly one recording surviving the quality gate, its
\* embedding is returned as it is; with two or more, the canonical
\* embedding is the arithmetic mean of the unnormalized embeddings of the
\* recordings whose cosine similarity to the mean direction is at least
\* 0.5, or of all surviving recordings when none reaches 0.5.
C25_AcrossRecordingAggregation ==
    LET pass  == PassingRecordings(arg)
        close == {i \in pass : CloseToMeanDirection(arg, pass, i)}
    IN  (out.done /\ pass # {}) =>
           /\ ~out.result.none
           /\ Cardinality(pass) = 1 =>
                 \A i \in pass :
                    out.result.value = <<Rat(arg[i].emb[1], 1),
                                         Rat(arg[i].emb[2], 1)>>
           /\ (Cardinality(pass) >= 2 /\ close # {}) =>
                 out.result.value = MeanOf(arg, close)
           /\ (Cardinality(pass) >= 2 /\ close = {}) =>
                 out.result.value = MeanOf(arg, pass)

\* C25 witness: three recordings pass the gate, two along one direction
\* and the third at a right angle (similarity 1/sqrt(5) < 0.5): the third
\* is excluded and the result is the mean of the first two.
C25_Witness ==
    /\ out.done
    /\ PassingRecordings(arg) = {1, 2, 3}
    /\ arg[1].emb = <<3, 4>>
    /\ arg[2].emb = <<12, 16>>
    /\ arg[3].emb = <<36, -27>>
    /\ out.result = AnEmbedding(<<Rat(15, 2), Rat(10, 1)>>)

\* C26: at session start and after a manual reset, no result is
\* 'verified' and nothing is emitted before WINDOW_SIZE + MIN_FRAMES - 1
\* frames have been admitted.
C26_LatencyAfterReset ==
    (result.verification_status = "verified" \/ gate = "emit")
        => admitted.n >= WINDOW_SIZE + MIN_FRAMES - 1

\* C26 witness: the first verified result, on the sixth loop iteration
\* after session start (every frame admitted, 500 ms apart).
C26_Witness ==
    /\ result.verification_status = "verified"
    /\ admitted.n = WINDOW_SIZE + MIN_FRAMES - 1
    /\ now = StartTime + 500 * (WINDOW_SIZE + MIN_FRAMES - 1)

\* C27: a loop iteration on a camera frame without a pose leaves the
\* landmark window, the temporal filter (last_concept, counts,
\* confirmed_concept) and the cooldown state unchanged and emits nothing.
C27_DroppedFrameNoEffect ==
    [][ (\E f \in TrackerFrames :
            /\ ~f.pose
            /\ \E dt \in TimeSteps : \E sc \in ScoreInputs(f) :
                  ProcessFrame(f, sc, dt))
        => /\ UNCHANGED <<landmark_window, filterVars, last_match_time,
                          last_matched_concept>>
           /\ gate' = "idle" ]_vars

\* C27 witness: a frame without a pose has just been processed on a full
\* window (only then is a full window left unscored) while the filter is
\* three frames into a streak, which it keeps.
C27_Witness ==
    /\ running
    /\ Len(landmark_window) = WINDOW_SIZE
    /\ result = UINoDecision
    /\ \E c \in Concepts : frame_count[c] = 3 /\ last_concept = c

\* C28: a verified frame that arrives while the socket is not connected
\* still passes through the cooldown gate: it is accepted, stamping
\* last_match_time and last_matched_concept although no event can be
\* sent, or it is suppressed because an acceptance lies at most
\* cooldown_ms back.
C28_LostEventStampsCooldown ==
    (result.verification_status = "verified" /\ ~socket_connected) =>
        /\ gate \in {"emit", "suppressed"}
        /\ gate = "emit" =>
              /\ last_match_time = now
              /\ last_matched_concept = result.concept
        /\ gate = "suppressed" =>
              /\ last_matched_concept # None
              /\ now - last_match_time <= DEFAULT_COOLDOWN_MS

\* A status with pending_confirmation read as verified.
ReadStatus(status) ==
    IF status = "pending_confirmation" THEN "verified" ELSE status

\* C29: on every library (a single concept included) and every score
\* table the three classifiers return, and assign the same status; with
\* one concept loaded and best >= theta1 each reports a clean match with
\* gap_to_second >= 0.
C29_ClassifiersAgree ==
    (\A e \in Engines : out[e].done) =>
        /\ \A e \in Engines : ~out[e].raised
        /\ \A e1, e2 \in Engines :
              ReadStatus(out[e1].status) = ReadStatus(out[e2].status)
        /\ ( /\ Len(concept_names) = 1
             /\ arg[concept_names[1]] >= COSINE_SIM_THRESHOLD )
           => \A e \in Engines :
                 /\ ReadStatus(out[e].status) = "verified"
                 /\ out[e].gap >= 0

\* C30: every verified frame that comes more than cooldown_ms after the
\* previous acceptance is accepted by the gate and stamps the clock, so a
\* sign that stays confirmed is emitted again and again.
C30_LevelTriggeredEmission ==
    [][ ( /\ now' # now
          /\ result'.verification_status = "verified"
          /\ now' - last_match_time > DEFAULT_COOLDOWN_MS )
        => ( /\ gate' = "emit"
             /\ last_match_time' = now'
             /\ last_matched_concept' = result'.concept
             /\ running' ) ]_vars

=============================================================================
